---- MODULE Spec2Model ----
(***************************************************************************)
(* Model of MediaDevicesHandler (src/src/script/media/MediaDevicesHandler.ts): *)
(* the lists of known media devices per device type, the selected device   *)
(* id per type, the derived "current available" id and support flag, the   *)
(* asynchronous enumerateDevices / desktopCapturer calls in flight, and    *)
(* the persistent store the selections are written to.                     *)
(*                                                                         *)
(* JavaScript runs one callback at a time, so every handler (constructor,  *)
(* promise continuation, event handler, observable write) is one action.   *)
(***************************************************************************)
EXTENDS Naturals, Sequences, FiniteSets

(* ------------------------------ bounds -------------------------------- *)

\* longest enumeration result delivered by enumerateDevices
MaxDevices == 2
\* longest source list delivered by desktopCapturer.getSources
MaxScreens == 1
\* operations the environment invokes in one run: refreshMediaDevices and
\* getScreenSources calls, device-change events, selection writes, restarts
MaxCalls == 3

(* --------------------------- value universe --------------------------- *)

\* the JavaScript value undefined (a property a device object does not carry)
undefined == "<undefined>"

\* type DeviceTypes
DeviceTypes == {"audioInput", "audioOutput", "screenInput", "videoInput"}

\* MediaDevicesHandler.CONFIG.DEFAULT_DEVICE
DEFAULT_DEVICE ==
  [deviceType \in DeviceTypes |->
     IF deviceType = "screenInput" THEN "screen" ELSE "default"]

\* enum MediaDeviceType: the device kinds and, at the same time, the storage keys
MediaDeviceType ==
  [deviceType \in DeviceTypes |->
     CASE deviceType = "audioInput"  -> "audioinput"
       [] deviceType = "audioOutput" -> "audiooutput"
       [] deviceType = "screenInput" -> "screeninput"
       [] deviceType = "videoInput"  -> "videoinput"]

\* the device ids a user can select
DeviceIds == {"", "d1"}

\* devices the enumerator can report: one with a primary id only, one with a
\* primary and a different secondary id, one with a secondary id only, one
\* with an empty primary id and no secondary id, one of an unsupported kind
EnumerableDevices ==
  { [deviceId |-> "d1", id |-> undefined, kind |-> "audioinput"],
    [deviceId |-> "d2", id |-> "d1",      kind |-> "audioinput"],
    [deviceId |-> "",   id |-> "d1",      kind |-> "audiooutput"],
    [deviceId |-> "",   id |-> undefined, kind |-> "videoinput"],
    [deviceId |-> "d1", id |-> undefined, kind |-> "other"] }

\* sources desktopCapturer can report (they carry an id and no deviceId)
ScreenSources ==
  { [deviceId |-> undefined, id |-> "d1", kind |-> "screen"],
    [deviceId |-> undefined, id |-> "d2", kind |-> "screen"] }

\* errors enumerateDevices / getSources can fail with
EnumerateErrors == {"NotAllowedError"}
CaptureErrors == {"CaptureError"}

\* the lists of at most n different elements of S
SeqsUpTo(S, n) ==
  {l \in UNION {[1..k -> S] : k \in 0..n} :
     \A i, j \in 1..Len(l) : l[i] = l[j] => i = j}

\* what one enumerateDevices call can deliver
EnumerateResults ==
  { [kind |-> "list", devices |-> l, error |-> "none"] : l \in SeqsUpTo(EnumerableDevices, MaxDevices) }
  \cup { [kind |-> "null", devices |-> <<>>, error |-> "none"] }
  \cup { [kind |-> "error", devices |-> <<>>, error |-> e] : e \in EnumerateErrors }

\* what one getSources callback can deliver
CaptureResults ==
  { [kind |-> "list", devices |-> l, error |-> "none"] : l \in SeqsUpTo(ScreenSources, MaxScreens) }
  \cup { [kind |-> "error", devices |-> <<>>, error |-> e] : e \in CaptureErrors }

NoInput == [kind |-> "none", devices |-> <<>>, error |-> "none"]
AbsentCapability == [kind |-> "absent", devices |-> <<>>, error |-> "none"]

\* no promise was settled by the last step
NoSettlement ==
  [op |-> "none", origin |-> "none", seq |-> 0, input |-> NoInput,
   status |-> "none", error |-> "none", value |-> <<>>, rejection |-> "none"]

\* no value stored under a key
Absent == "<absent>"

\* no write of the selection of a device type so far
NoWrite ==
  [written |-> FALSE, id |-> "", life |-> 0, subscribed |-> FALSE, changed |-> FALSE,
   storeOk |-> FALSE, surfaced |-> FALSE]

(* ------------------------------- state -------------------------------- *)

VARIABLES
  availableDevices,          \* this.availableDevices: device type -> list
  currentDeviceId,           \* this.currentDeviceId: device type -> selected id
  currentAvailableDeviceId,  \* this.currentAvailableDeviceId (computed)
  deviceSupport,             \* this.deviceSupport (computed)
  observablesSubscribed,     \* _subscribeToObservables has run
  ondevicechange,            \* navigator.mediaDevices.ondevicechange is set
  pending,                   \* enumerateDevices calls in flight
  nextSeq,                   \* refreshMediaDevices calls issued in this life
  screenPending,             \* getSources callbacks in flight
  store,                     \* persistent storage: key -> value or Absent
  supportsMediaDevices,      \* Environment.browser.supports.mediaDevices
  desktopCapturer,           \* window.desktopCapturer is present
  settled,                   \* the promise settled by the last step
  notifications,             \* what the observers were notified of by the last step
  latestArrived,             \* the latest issued of the refreshes whose result has arrived
  lastSet,                   \* the last write of each selection, and when it was made
  calls,                     \* operations invoked so far
  restarts                   \* restarts so far

vars ==
  << availableDevices, currentDeviceId, currentAvailableDeviceId, deviceSupport,
     observablesSubscribed, ondevicechange, pending, nextSeq, screenPending,
     store, supportsMediaDevices, desktopCapturer, settled, notifications,
     latestArrived, lastSet, calls, restarts >>

(* ------------------------ the computed observables -------------------- *)

\* JavaScript truthiness of a string-or-undefined value
Truthy(value) == value # "" /\ value # undefined

\* the identifier the handler reads from a device: device.deviceId || device.id
DeviceIdOf(device) == IF Truthy(device.deviceId) THEN device.deviceId ELSE device.id

\* getCurrentAvailableDeviceId without its test for an empty list
getCurrentAvailableDeviceId_NoEmptyCheck(deviceType, devices, ids) ==
  LET selected == ids[deviceType]
      list == devices[deviceType]
  IN  IF \E i \in 1..Len(list) : DeviceIdOf(list[i]) = selected
        THEN selected
        ELSE DEFAULT_DEVICE[deviceType]

\* getCurrentAvailableDeviceId returning the selected id for every non-empty list
getCurrentAvailableDeviceId_NoDefault(deviceType, devices, ids) ==
  IF Len(devices[deviceType]) = 0 THEN "" ELSE ids[deviceType]

\* getCurrentAvailableDeviceId comparing device.deviceId alone
getCurrentAvailableDeviceId_PrimaryOnly(deviceType, devices, ids) ==
  LET selected == ids[deviceType]
      list == devices[deviceType]
  IN  IF Len(list) = 0
        THEN ""
        ELSE IF \E i \in 1..Len(list) : list[i].deviceId = selected
               THEN selected
               ELSE DEFAULT_DEVICE[deviceType]

\* getCurrentAvailableDeviceId(deviceType), on given lists and selections
getCurrentAvailableDeviceId(deviceType, devices, ids) ==
  LET selected == ids[deviceType]
      list == devices[deviceType]
  IN  IF Len(list) = 0
        THEN ""
        ELSE IF \E i \in 1..Len(list) : DeviceIdOf(list[i]) = selected
               THEN selected
               ELSE DEFAULT_DEVICE[deviceType]

\* deviceSupport computeds that all read the audioInput list
getDeviceSupport_AudioInputOnly(deviceType, devices) == Len(devices["audioInput"]) # 0

\* the deviceSupport computeds: !!this.availableDevices[deviceType]().length
getDeviceSupport(deviceType, devices) == Len(devices[deviceType]) # 0

\* what an observer of a device type sees when it is notified
Snapshot(deviceType, devices, ids) ==
  [deviceType |-> deviceType,
   devices |-> devices[deviceType],
   currentAvailableDeviceId |-> getCurrentAvailableDeviceId(deviceType, devices, ids),
   deviceSupport |-> getDeviceSupport(deviceType, devices)]

(* ----------------------------- persistence ---------------------------- *)

StorageKeys == {MediaDeviceType[deviceType] : deviceType \in DeviceTypes}

\* loadValue(key): the stored value, the empty string when there is none
loadValue(st, key) == IF st[key] = Absent THEN "" ELSE st[key]

\* storeValue(key, value): ok is whether the write to the store succeeds
storeValue(st, key, value, ok) == IF ok THEN [st EXCEPT ![key] = value] ELSE st

\* whether a failing storeValue throws to its caller: the store logs a failed
\* write and does not propagate it
storeValueThrows(ok) == FALSE

\* _subscribeToObservables without its subscription for videoInput
SubscribedTypes_WithoutVideoInput == {"audioInput", "audioOutput"}

\* the device types whose selection _subscribeToObservables forwards to the store
SubscribedTypes == {"audioInput", "audioOutput", "videoInput"}

\* the subscription callbacks of _subscribeToObservables, run on a changed selection
onCurrentDeviceIdChanged(st, subscribed, deviceType, mediaDeviceId, ok) ==
  IF subscribed /\ deviceType \in SubscribedTypes
    THEN storeValue(st, MediaDeviceType[deviceType], mediaDeviceId, ok)
    ELSE st

\* whether a write of a selection throws to its writer: the subscription
\* callbacks call storeValue without a try/catch, so what storeValue throws
\* reaches the writer
writeThrows(subscribed, deviceType, ok) ==
  subscribed /\ deviceType \in SubscribedTypes /\ storeValueThrows(ok)

\* a write that the observable drops when the written id is empty
writeCurrentDeviceId_DropsEmpty(ids, deviceType, mediaDeviceId) ==
  IF mediaDeviceId = "" THEN ids ELSE [ids EXCEPT ![deviceType] = mediaDeviceId]

\* this.currentDeviceId[deviceType](mediaDeviceId): the observable holds the
\* written value before it notifies its subscribers
writeCurrentDeviceId(ids, deviceType, mediaDeviceId) ==
  [ids EXCEPT ![deviceType] = mediaDeviceId]

(* --------------------------- refreshMediaDevices ---------------------- *)

\* the device types refreshMediaDevices fills, in the order it fills them
RefreshedTypes == <<"audioInput", "audioOutput", "videoInput">>

\* _removeAllDevices leaving the audioInput list as it is
_removeAllDevices_KeepsAudioInput(devices) ==
  [deviceType \in DeviceTypes |->
     IF deviceType \in {"audioOutput", "videoInput"}
       THEN <<>>
       ELSE devices[deviceType]]

\* _removeAllDevices emptying the screenInput list as well
_removeAllDevices_AlsoScreenInput(devices) ==
  [deviceType \in DeviceTypes |-> <<>>]

\* _removeAllDevices()
_removeAllDevices(devices) ==
  [deviceType \in DeviceTypes |->
     IF deviceType \in {"audioInput", "audioOutput", "videoInput"}
       THEN <<>>
       ELSE devices[deviceType]]

\* the forEach/switch of refreshMediaDevices: the devices of one kind, in order
RECURSIVE devicesOfKind(_, _)
devicesOfKind(mediaDevices, kind) ==
  IF mediaDevices = <<>>
    THEN <<>>
    ELSE IF Head(mediaDevices).kind = kind
           THEN <<Head(mediaDevices)>> \o devicesOfKind(Tail(mediaDevices), kind)
           ELSE devicesOfKind(Tail(mediaDevices), kind)

\* koArrayPushAll(koArray, valuesToPush)
koArrayPushAll(array, valuesToPush) == array \o valuesToPush

\* the .catch of refreshMediaDevices logging without rethrowing: the chain goes
\* on with an undefined value
catchEnumerateError_Swallows(result) ==
  IF result.kind = "error"
    THEN [kind |-> "null", devices |-> <<>>, error |-> "none"]
    ELSE result

\* the .catch of refreshMediaDevices: logs and rethrows, so a rejection stays
\* a rejection with the same error and a resolution passes through
catchEnumerateError(result) == result

\* a .then that tests mediaDevices before it removes the devices, so that the
\* lists are kept when there is no result
refreshThen_TestsBeforeRemoving(devices, result) ==
  IF result.kind = "list"
    THEN [deviceType \in DeviceTypes |->
            IF deviceType \in {"audioInput", "audioOutput", "videoInput"}
              THEN devicesOfKind(result.devices, MediaDeviceType[deviceType])
              ELSE devices[deviceType]]
    ELSE devices

\* the .then of refreshMediaDevices: the lists after it has run on mediaDevices
refreshThen(devices, result) ==
  LET removed == _removeAllDevices(devices)
  IN  IF result.kind = "list"
        THEN [deviceType \in DeviceTypes |->
                IF deviceType \in {"audioInput", "audioOutput", "videoInput"}
                  THEN koArrayPushAll(removed[deviceType],
                                      devicesOfKind(result.devices, MediaDeviceType[deviceType]))
                  ELSE removed[deviceType]]
        ELSE removed

\* what the observers are notified of while the .then runs: every list is
\* emptied first, and filled afterwards when there is a result
refreshNotifications(devices, ids, result) ==
  LET removed == _removeAllDevices(devices)
      emptied == [i \in 1..Len(RefreshedTypes) |-> Snapshot(RefreshedTypes[i], removed, ids)]
      filled  == [i \in 1..Len(RefreshedTypes) |->
                    Snapshot(RefreshedTypes[i], refreshThen(devices, result), ids)]
  IN  IF result.kind = "list" THEN emptied \o filled ELSE emptied

\* a refresh that writes the resolved id of every device type back to its selection
selectionsAfterRefresh_WritesResolved(devices, ids) ==
  [deviceType \in DeviceTypes |-> getCurrentAvailableDeviceId(deviceType, devices, ids)]

\* the selections after the .then of refreshMediaDevices has produced the lists
\* devices: the .then and the computeds it triggers read the currentDeviceId
\* observables and assign none of them
selectionsAfterRefresh(devices, ids) == ids

(* ---------------------------- getScreenSources ------------------------ *)

\* a getSources callback that appends the sources to the screenInput list
setScreenSources_Appends(devices, screenSources) ==
  [devices EXCEPT !["screenInput"] = devices["screenInput"] \o screenSources]

\* this.availableDevices.screenInput(screenSources) in the getSources callback
setScreenSources(devices, screenSources) ==
  [devices EXCEPT !["screenInput"] = screenSources]

(* ----------------------------- construction --------------------------- *)

\* the constructor's availableDevices: four empty observable arrays
constructedDevices == [deviceType \in DeviceTypes |-> <<>>]

\* a constructor loading every selection from the audioInput key
constructedDeviceIds_AllFromAudioInput(st) ==
  [deviceType \in DeviceTypes |-> loadValue(st, MediaDeviceType["audioInput"])]

\* the constructor's currentDeviceId: every selection loaded from the store
constructedDeviceIds(st) ==
  [deviceType \in DeviceTypes |-> loadValue(st, MediaDeviceType[deviceType])]

\* _initializeMediaDevices(): the initial refresh, when media devices are supported
_initializeMediaDevices(supported) ==
  IF supported THEN {[seq |-> 1, origin |-> "init"]} ELSE {}

\* the subscriptions made whenever the constructor's refresh settles, rejected or not
initialRefreshThen_Finally(origin, resolved) == origin = "init"

\* the .then of _initializeMediaDevices: whether _subscribeToObservables and
\* _subscribeToDevices run when a refresh of this origin settles
initialRefreshThen(origin, resolved) == origin = "init" /\ resolved

\* who receives the rejection of the promise refreshMediaDevices() returned: a
\* caller holds the promise; the ondevicechange handler drops it, and
\* _initializeMediaDevices chains a .then without a rejection handler and returns
\* void, so for those two the rejection stays unhandled
rejectionOf(origin) == IF origin = "call" THEN "caller" ELSE "unhandled"

Init ==
  /\ store = [key \in StorageKeys |-> Absent]
  /\ supportsMediaDevices \in BOOLEAN
  /\ desktopCapturer \in BOOLEAN
  /\ availableDevices = constructedDevices
  /\ currentDeviceId = constructedDeviceIds(store)
  /\ currentAvailableDeviceId =
       [deviceType \in DeviceTypes |->
          getCurrentAvailableDeviceId(deviceType, availableDevices, currentDeviceId)]
  /\ deviceSupport =
       [deviceType \in DeviceTypes |-> getDeviceSupport(deviceType, availableDevices)]
  /\ observablesSubscribed = FALSE
  /\ ondevicechange = FALSE
  /\ pending = _initializeMediaDevices(supportsMediaDevices)
  /\ nextSeq = Cardinality(pending)
  /\ screenPending = 0
  /\ settled = NoSettlement
  /\ notifications = <<>>
  /\ latestArrived = 0
  /\ lastSet = [deviceType \in DeviceTypes |-> NoWrite]
  /\ calls = 0
  /\ restarts = 0

\* the pureComputeds re-evaluate whenever a list or a selection has changed
Recompute ==
  /\ currentAvailableDeviceId' =
       [deviceType \in DeviceTypes |->
          getCurrentAvailableDeviceId(deviceType, availableDevices', currentDeviceId')]
  /\ deviceSupport' =
       [deviceType \in DeviceTypes |-> getDeviceSupport(deviceType, availableDevices')]

(* ------------------------------- actions ------------------------------ *)

\* refreshMediaDevices() up to its enumerateDevices() call
issueRefresh(origin) ==
  /\ calls < MaxCalls
  /\ calls' = calls + 1
  /\ nextSeq' = nextSeq + 1
  /\ pending' = pending \cup {[seq |-> nextSeq + 1, origin |-> origin]}
  /\ settled' = NoSettlement
  /\ notifications' = <<>>
  /\ UNCHANGED << availableDevices, currentDeviceId, currentAvailableDeviceId,
                  deviceSupport, observablesSubscribed, ondevicechange, screenPending,
                  store, supportsMediaDevices, desktopCapturer, latestArrived,
                  lastSet, restarts >>

\* a caller calls refreshMediaDevices(); where media devices are unsupported
\* there is no navigator.mediaDevices to enumerate and no state changes
RefreshCall ==
  /\ supportsMediaDevices
  /\ issueRefresh("call")

\* the ondevicechange handler installed by _subscribeToDevices()
DeviceChange ==
  /\ ondevicechange
  /\ issueRefresh("devicechange")

\* enumerateDevices() of refresh r settles with result: the .catch, the .then
\* and, for the constructor's refresh, the .then of _initializeMediaDevices
EnumerateSettles(r, result) ==
  LET passed == catchEnumerateError(result)
      rejected == passed.kind = "error"
      resolved == passed.kind = "list"
  IN  /\ r \in pending
      /\ pending' = pending \ {r}
      /\ availableDevices' =
           IF rejected THEN availableDevices ELSE refreshThen(availableDevices, passed)
      /\ notifications' =
           IF rejected THEN <<>>
           ELSE refreshNotifications(availableDevices, currentDeviceId, passed)
      /\ settled' =
           [op |-> "refreshMediaDevices", origin |-> r.origin, seq |-> r.seq,
            input |-> result,
            status |-> IF resolved THEN "resolved" ELSE "rejected",
            error |-> IF resolved THEN "none"
                      ELSE IF rejected THEN passed.error ELSE "No media devices found",
            value |-> IF resolved THEN passed.devices ELSE <<>>,
            rejection |-> IF resolved THEN "none" ELSE rejectionOf(r.origin)]
      /\ observablesSubscribed' =
           (observablesSubscribed \/ initialRefreshThen(r.origin, resolved))
      /\ ondevicechange' = (ondevicechange \/ initialRefreshThen(r.origin, resolved))
      /\ latestArrived' =
           IF result.kind # "error" /\ r.seq > latestArrived
             THEN r.seq
             ELSE latestArrived
      /\ currentDeviceId' = selectionsAfterRefresh(availableDevices', currentDeviceId)
      /\ UNCHANGED << nextSeq, screenPending, store, supportsMediaDevices,
                      desktopCapturer, lastSet, calls, restarts >>
      /\ Recompute

\* the user selects a device: currentDeviceId[deviceType](mediaDeviceId). The
\* observable notifies its subscribers only of a changed value; ok, whether the
\* store write succeeds, is an input only where a store write is made
Select(deviceType, mediaDeviceId, ok) ==
  LET changed == currentDeviceId[deviceType] # mediaDeviceId
  IN  /\ calls < MaxCalls
      /\ calls' = calls + 1
      /\ (ok \/ (changed /\ observablesSubscribed /\ deviceType \in SubscribedTypes))
      /\ currentDeviceId' = writeCurrentDeviceId(currentDeviceId, deviceType, mediaDeviceId)
      /\ store' =
           IF changed
             THEN onCurrentDeviceIdChanged(store, observablesSubscribed, deviceType,
                                           mediaDeviceId, ok)
             ELSE store
      /\ lastSet' =
           [lastSet EXCEPT ![deviceType] =
              [written |-> TRUE, id |-> mediaDeviceId, life |-> restarts,
               subscribed |-> observablesSubscribed, changed |-> changed,
               storeOk |-> ok,
               surfaced |-> changed /\ writeThrows(observablesSubscribed, deviceType, ok)]]
      /\ notifications' =
           IF changed
             THEN <<Snapshot(deviceType, availableDevices, currentDeviceId')>>
             ELSE <<>>
      /\ settled' = NoSettlement
      /\ UNCHANGED << availableDevices, observablesSubscribed, ondevicechange, pending,
                      nextSeq, screenPending, supportsMediaDevices, desktopCapturer,
                      latestArrived, restarts >>
      /\ Recompute

\* getScreenSources() with window.desktopCapturer present: getSources is called
GetScreenSources ==
  /\ desktopCapturer
  /\ calls < MaxCalls
  /\ calls' = calls + 1
  /\ screenPending' = screenPending + 1
  /\ settled' = NoSettlement
  /\ notifications' = <<>>
  /\ UNCHANGED << availableDevices, currentDeviceId, currentAvailableDeviceId,
                  deviceSupport, observablesSubscribed, ondevicechange, pending,
                  nextSeq, store, supportsMediaDevices, desktopCapturer,
                  latestArrived, lastSet, restarts >>

\* getScreenSources() with window.desktopCapturer absent: reading getSources of
\* undefined throws a TypeError in the promise executor, which rejects the promise
GetScreenSourcesNoCapturer ==
  /\ ~desktopCapturer
  /\ calls < MaxCalls
  /\ calls' = calls + 1
  /\ settled' =
       [op |-> "getScreenSources", origin |-> "call", seq |-> 0,
        input |-> AbsentCapability, status |-> "rejected", error |-> "TypeError",
        value |-> <<>>, rejection |-> "caller"]
  /\ notifications' = <<>>
  /\ UNCHANGED << availableDevices, currentDeviceId, currentAvailableDeviceId,
                  deviceSupport, observablesSubscribed, ondevicechange, pending,
                  nextSeq, screenPending, store, supportsMediaDevices,
                  desktopCapturer, latestArrived, lastSet, restarts >>

\* the callback getScreenSources() passes to getSources
ScreenSourcesCallback(result) ==
  LET failed == result.kind = "error"
  IN  /\ screenPending > 0
      /\ screenPending' = screenPending - 1
      /\ availableDevices' =
           IF failed THEN availableDevices
           ELSE setScreenSources(availableDevices, result.devices)
      /\ notifications' =
           IF failed THEN <<>>
           ELSE <<Snapshot("screenInput", availableDevices', currentDeviceId)>>
      /\ settled' =
           [op |-> "getScreenSources", origin |-> "call", seq |-> 0, input |-> result,
            status |-> IF failed THEN "rejected" ELSE "resolved",
            error |-> result.error,
            value |-> result.devices,
            rejection |-> IF failed THEN "caller" ELSE "none"]
      /\ UNCHANGED << currentDeviceId, observablesSubscribed, ondevicechange, pending,
                      nextSeq, store, supportsMediaDevices, desktopCapturer,
                      latestArrived, lastSet, calls, restarts >>
      /\ Recompute

\* the process restarts: a new handler is constructed over the same store
Restart ==
  /\ calls < MaxCalls
  /\ calls' = calls + 1
  /\ restarts' = restarts + 1
  /\ availableDevices' = constructedDevices
  /\ currentDeviceId' = constructedDeviceIds(store)
  /\ observablesSubscribed' = FALSE
  /\ ondevicechange' = FALSE
  /\ pending' = _initializeMediaDevices(supportsMediaDevices)
  /\ nextSeq' = Cardinality(pending')
  /\ screenPending' = 0
  /\ settled' = NoSettlement
  /\ notifications' = <<>>
  /\ latestArrived' = 0
  /\ UNCHANGED << store, supportsMediaDevices, desktopCapturer, lastSet >>
  /\ Recompute

\* one of the outstanding enumerations settles, with any result
EnumerationSettles ==
  \E r \in pending : \E result \in EnumerateResults : EnumerateSettles(r, result)

\* the user selects any device id for any device type
SelectDevice ==
  \E deviceType \in DeviceTypes : \E mediaDeviceId \in DeviceIds : \E ok \in BOOLEAN :
    Select(deviceType, mediaDeviceId, ok)

\* getSources calls back, with any result
ScreenSourcesDelivered ==
  \E result \in CaptureResults : ScreenSourcesCallback(result)

Next ==
  \/ RefreshCall
  \/ DeviceChange
  \/ EnumerationSettles
  \/ SelectDevice
  \/ GetScreenSources
  \/ GetScreenSourcesNoCapturer
  \/ ScreenSourcesDelivered
  \/ Restart

Spec == Init /\ [][Next]_vars

(* ------------------------------ claims -------------------------------- *)

\* C1: when the result of a refresh arrives after the result of a refresh that
\* was issued later, the stored lists of audioInput, audioOutput and videoInput
\* keep reflecting the later-issued refresh: the late result does not change them.
C1_StaleResultDiscarded ==
  [][ ( /\ settled'.op = "refreshMediaDevices"
        /\ settled'.input.kind # "error"
        /\ settled'.seq < latestArrived )
      => \A deviceType \in {"audioInput", "audioOutput", "videoInput"} :
           availableDevices'[deviceType] = availableDevices[deviceType] ]_vars

\* C2: in every reachable state at most one enumeration is outstanding.
C2_AtMostOneInFlight == Cardinality(pending) <= 1

\* C3: in every reachable state and for every device type, an empty list of
\* available devices makes the current available id the empty string, whatever
\* the selected id.
C3_EmptyListEmptyId ==
  \A deviceType \in DeviceTypes :
    availableDevices[deviceType] = <<>> => currentAvailableDeviceId[deviceType] = ""

\* C3 witness: after a refresh has delivered a result, a device type with a
\* selected id and an empty list.
C3_Witness ==
  /\ latestArrived > 0
  /\ \E deviceType \in DeviceTypes :
       /\ availableDevices[deviceType] = <<>>
       /\ currentDeviceId[deviceType] = "d1"
       /\ currentAvailableDeviceId[deviceType] = ""
  /\ \E deviceType \in DeviceTypes : availableDevices[deviceType] # <<>>

\* D is the id of the device: its deviceId or, for a device that carries no
\* (or an empty) deviceId, its id
HasId(device, D) ==
  \/ device.deviceId \notin {"", undefined} /\ device.deviceId = D
  \/ device.deviceId \in {"", undefined} /\ device.id = D

\* C4: in every reachable state, for every device type with a non-empty list and
\* selected id D, the current available id is D when D is the id of a listed
\* device and the default device of the type otherwise; it is a function of the
\* current selection and the current list.
C4_ResolveNonEmpty ==
  \A deviceType \in DeviceTypes :
    LET list == availableDevices[deviceType]
        D == currentDeviceId[deviceType]
    IN  list # <<>> =>
          currentAvailableDeviceId[deviceType] =
            IF \E i \in 1..Len(list) : HasId(list[i], D)
              THEN D
              ELSE DEFAULT_DEVICE[deviceType]

\* C4 witness: one device type resolves to its selected id, another one to its
\* default device.
C4_Witness ==
  /\ \E deviceType \in DeviceTypes :
       /\ availableDevices[deviceType] # <<>>
       /\ currentDeviceId[deviceType] = "d1"
       /\ currentAvailableDeviceId[deviceType] = "d1"
  /\ \E deviceType \in DeviceTypes :
       /\ availableDevices[deviceType] # <<>>
       /\ currentAvailableDeviceId[deviceType] = DEFAULT_DEVICE[deviceType]

\* the devices of list L whose kind is that of the device type, in the order of L
OfType(L, deviceType) ==
  LET IsOfType(device) == device.kind = MediaDeviceType[deviceType]
  IN  SelectSeq(L, IsOfType)

\* C5: right after refreshMediaDevices has applied an enumeration result L, each
\* of the audioInput, audioOutput and videoInput lists holds exactly the devices
\* of L of that kind, in the order of L, and nothing of an earlier refresh.
C5_ReplaceNotMerge ==
  (settled.op = "refreshMediaDevices" /\ settled.status = "resolved") =>
    \A deviceType \in {"audioInput", "audioOutput", "videoInput"} :
      availableDevices[deviceType] = OfType(settled.input.devices, deviceType)

\* C5 witness: a result with two devices of one kind is applied by a refresh
\* that overlapped with a later-issued one whose result arrived first.
C5_Witness ==
  /\ settled.op = "refreshMediaDevices"
  /\ settled.status = "resolved"
  /\ settled.seq < latestArrived
  /\ Len(availableDevices["audioInput"]) = 2

\* C6: when enumerateDevices rejects, the lists of all four device types are what
\* they were before, and refreshMediaDevices rejects with the enumerator's error.
C6_FailedEnumerationKeepsState ==
  [][ (settled'.op = "refreshMediaDevices" /\ settled'.input.kind = "error")
      => /\ availableDevices' = availableDevices
         /\ settled'.status = "rejected"
         /\ settled'.error = settled'.input.error ]_vars

\* C6 witness: an enumeration has been rejected while devices were listed.
C6_Witness ==
  /\ settled.op = "refreshMediaDevices"
  /\ settled.input.kind = "error"
  /\ availableDevices["audioInput"] # <<>>
  /\ availableDevices["videoInput"] # <<>>

\* the last write of the selection of a device type was made in an earlier
\* life of the handler: the process has restarted since
WrittenBeforeRestart(deviceType) ==
  lastSet[deviceType].written /\ lastSet[deviceType].life < restarts

\* C7 as stated: for every device type, a selection written at any point of an
\* earlier life of the handler is the selection after the restart.
C7_RoundTripAnyWrite ==
  \A deviceType \in DeviceTypes :
    WrittenBeforeRestart(deviceType) =>
      currentDeviceId[deviceType] = lastSet[deviceType].id

\* C7 amended: for every device type but screenInput, a write that changed the
\* selection, was made after the initial refresh had completed successfully
\* (the selection subscriptions existed) and whose store write succeeded, is
\* the selection after the restart.
C7_RoundTripSubscribedWrite ==
  \A deviceType \in DeviceTypes \ {"screenInput"} :
    ( /\ WrittenBeforeRestart(deviceType)
      /\ lastSet[deviceType].subscribed
      /\ lastSet[deviceType].changed
      /\ lastSet[deviceType].storeOk )
    => currentDeviceId[deviceType] = lastSet[deviceType].id

\* C7 witness: after a restart, a selection written in the earlier life, after
\* the initial refresh, is the selection again.
C7_Witness ==
  \E deviceType \in DeviceTypes \ {"screenInput"} :
    /\ WrittenBeforeRestart(deviceType)
    /\ lastSet[deviceType].subscribed
    /\ lastSet[deviceType].changed
    /\ lastSet[deviceType].storeOk
    /\ lastSet[deviceType].id = "d1"
    /\ currentDeviceId[deviceType] = "d1"

\* C8: every value observers are notified of during a refresh is the state of
\* the device type before the refresh or its state after the refresh.
C8_ConsistentSnapshot ==
  [][ settled'.op = "refreshMediaDevices" =>
        \A i \in 1..Len(notifications') :
          LET seen == notifications'[i]
          IN  \/ seen = Snapshot(seen.deviceType, availableDevices, currentDeviceId)
              \/ seen = Snapshot(seen.deviceType, availableDevices', currentDeviceId') ]_vars

\* C9: with window.desktopCapturer absent, getScreenSources fails with a
\* CapabilityUnavailable error and leaves the screenInput list as it was.
C9_AbsentCapability ==
  [][ (settled'.op = "getScreenSources" /\ settled'.input.kind = "absent")
      => /\ settled'.status = "rejected"
         /\ settled'.error = "CapabilityUnavailable"
         /\ availableDevices'["screenInput"] = availableDevices["screenInput"] ]_vars

\* C10 as stated, for a selected id D that is not empty: for every device type
\* with a non-empty list, if some listed device has D as its deviceId or as its
\* id (also next to a different deviceId), the current available id is D.
C10_EitherIdentifier ==
  \A deviceType \in DeviceTypes :
    LET list == availableDevices[deviceType]
        D == currentDeviceId[deviceType]
    IN  ( /\ D # ""
          /\ \E i \in 1..Len(list) : list[i].deviceId = D \/ list[i].id = D )
        => currentAvailableDeviceId[deviceType] = D

\* C10 amended: for every device type with a non-empty list and selected id D, if
\* some listed device has D as its non-empty deviceId, or carries no (or an
\* empty) deviceId and has D as its id, the current available id is D.
C10_FallbackIdentifier ==
  \A deviceType \in DeviceTypes :
    LET list == availableDevices[deviceType]
        D == currentDeviceId[deviceType]
    IN  ( \E i \in 1..Len(list) :
            \/ list[i].deviceId \notin {"", undefined} /\ list[i].deviceId = D
            \/ list[i].deviceId \in {"", undefined} /\ list[i].id = D )
        => currentAvailableDeviceId[deviceType] = D

\* C10 witness: a selected id is found as the id of an enumerated device that
\* carries an empty deviceId.
C10_Witness ==
  \E deviceType \in DeviceTypes \ {"screenInput"} :
    /\ currentDeviceId[deviceType] = "d1"
    /\ currentAvailableDeviceId[deviceType] = "d1"
    /\ \A i \in 1..Len(availableDevices[deviceType]) :
         availableDevices[deviceType][i].deviceId = ""

\* C11: the ondevicechange handler and the subscriptions that forward a selection
\* to the store are established only by the step in which the constructor's
\* refreshMediaDevices resolves; a refresh is started by a device-change event
\* only while the handler is installed, the store is written only while the
\* subscriptions exist, and a step that settles the constructor's refresh
\* without resolving it leaves both unestablished.
C11_SubscriptionsFollowInitialRefresh ==
  [][ /\ ((observablesSubscribed' /\ ~observablesSubscribed)
            \/ (ondevicechange' /\ ~ondevicechange))
        => /\ settled'.op = "refreshMediaDevices"
           /\ settled'.origin = "init"
           /\ settled'.status = "resolved"
      /\ (\E r \in pending' \ pending : r.origin = "devicechange") => ondevicechange
      /\ store' # store => observablesSubscribed
      /\ (settled'.origin = "init" /\ settled'.status = "rejected")
        => ~observablesSubscribed' /\ ~ondevicechange' ]_vars

\* C11 witness: after the constructor's refresh has resolved, a device-change
\* event has started a refresh and a selection written since has reached the store.
C11_Witness ==
  /\ observablesSubscribed
  /\ ondevicechange
  /\ \E r \in pending : r.origin = "devicechange"
  /\ \E deviceType \in SubscribedTypes :
       /\ lastSet[deviceType].written
       /\ lastSet[deviceType].life = restarts
       /\ lastSet[deviceType].subscribed
       /\ store[MediaDeviceType[deviceType]] = "d1"

\* C12: when a refresh started by a device-change event fails, its rejection
\* reaches no caller and is not left unhandled, the device lists and the
\* selections are as before, and the ondevicechange handler stays installed.
C12_ChangeFailureSwallowed ==
  [][ (/\ settled'.op = "refreshMediaDevices"
       /\ settled'.origin = "devicechange"
       /\ settled'.status = "rejected")
        => /\ settled'.rejection \notin {"caller", "unhandled"}
           /\ availableDevices' = availableDevices
           /\ currentDeviceId' = currentDeviceId
           /\ ondevicechange' ]_vars

\* C13: when the refresh started by the constructor fails, its rejection is
\* delivered to the caller that constructed the handler.
C13_StartupFailurePropagates ==
  (/\ settled.op = "refreshMediaDevices"
   /\ settled.origin = "init"
   /\ settled.status = "rejected")
    => settled.rejection = "caller"

C16_SupportIffNonEmpty ==
  \A deviceType \in DeviceTypes :
    deviceSupport[deviceType] <=> (availableDevices[deviceType] # <<>>)

\* C16 witness: after a refresh and a screen source listing, some device types
\* have devices and are supported while audioInput has none and is not.
C16_Witness ==
  /\ deviceSupport["screenInput"]
  /\ deviceSupport["videoInput"]
  /\ ~deviceSupport["audioInput"]
  /\ availableDevices["audioInput"] = <<>>
  /\ availableDevices["videoInput"] # <<>>

\* C17: a step that is neither a write of a selection nor the construction of a
\* new handler (a refreshMediaDevices call, its successful or failed settlement,
\* a device-change event, getScreenSources and its callback, each with the
\* re-evaluation of currentAvailableDeviceId it causes) leaves every selection
\* as it was, also when the selected device is not in the new list.
C17_SelectionChangedOnlyByUser ==
  [][ (lastSet' = lastSet /\ restarts' = restarts)
        => currentDeviceId' = currentDeviceId ]_vars

\* C17 witness: a refresh has just delivered a non-empty list without the
\* selected device; the resolved id is the default and the selection is kept.
C17_Witness ==
  \E deviceType \in DeviceTypes \ {"screenInput"} :
    /\ settled.op = "refreshMediaDevices"
    /\ settled.status = "resolved"
    /\ lastSet[deviceType].life = restarts
    /\ currentDeviceId[deviceType] = "d1"
    /\ availableDevices[deviceType] # <<>>
    /\ currentAvailableDeviceId[deviceType] = DEFAULT_DEVICE[deviceType]

\* C18: a settling refreshMediaDevices leaves the screenInput list as it was, a
\* settling getScreenSources leaves the audioInput, audioOutput and videoInput
\* lists as they were, and every listed device has the kind of the device type
\* it is listed under, so a device of an unsupported kind is in no list.
C18_CategorySeparation ==
  [][ /\ settled'.op = "refreshMediaDevices"
        => availableDevices'["screenInput"] = availableDevices["screenInput"]
      /\ settled'.op = "getScreenSources"
        => \A deviceType \in DeviceTypes \ {"screenInput"} :
             availableDevices'[deviceType] = availableDevices[deviceType]
      /\ \A deviceType \in DeviceTypes :
           \A i \in 1..Len(availableDevices'[deviceType]) :
             IF deviceType = "screenInput"
               THEN availableDevices'[deviceType][i] \in ScreenSources
               ELSE availableDevices'[deviceType][i].kind = MediaDeviceType[deviceType] ]_vars

\* C18 witness: a refresh has just resolved with a list that holds a device of
\* an unsupported kind, while screen sources and other devices are listed.
C18_Witness ==
  /\ settled.op = "refreshMediaDevices"
  /\ settled.status = "resolved"
  /\ \E i \in 1..Len(settled.value) : settled.value[i].kind = "other"
  /\ availableDevices["screenInput"] # <<>>
  /\ \E deviceType \in DeviceTypes \ {"screenInput"} : availableDevices[deviceType] # <<>>

\* C19: when the getSources callback reports sources S and no error, the
\* screenInput list becomes exactly S and getScreenSources resolves with S;
\* when it reports an error, getScreenSources rejects with that error and the
\* screenInput list is as before.
C19_ScreenSourceListing ==
  [][ (settled'.op = "getScreenSources" /\ settled'.input.kind # "absent")
        => IF settled'.input.kind = "error"
             THEN /\ settled'.status = "rejected"
                  /\ settled'.error = settled'.input.error
                  /\ availableDevices'["screenInput"] = availableDevices["screenInput"]
             ELSE /\ settled'.status = "resolved"
                  /\ settled'.value = settled'.input.devices
                  /\ availableDevices'["screenInput"] = settled'.input.devices ]_vars

\* C19 witness: getScreenSources has just resolved with a source list, which is
\* the screenInput list, while other device types have devices listed.
C19_Witness ==
  /\ settled.op = "getScreenSources"
  /\ settled.status = "resolved"
  /\ settled.value # <<>>
  /\ availableDevices["screenInput"] = settled.value
  /\ \E deviceType \in DeviceTypes \ {"screenInput"} : availableDevices[deviceType] # <<>>

\* C20: when enumerateDevices resolves without a list, refreshMediaDevices
\* rejects with the error 'No media devices found', the audioInput, audioOutput
\* and videoInput lists are empty afterwards, and the screenInput list and
\* every selection are as before.
C20_EnumerationWithoutList ==
  [][ (settled'.op = "refreshMediaDevices" /\ settled'.input.kind = "null")
        => /\ settled'.status = "rejected"
           /\ settled'.error = "No media devices found"
           /\ \A deviceType \in DeviceTypes \ {"screenInput"} :
                availableDevices'[deviceType] = <<>>
           /\ availableDevices'["screenInput"] = availableDevices["screenInput"]
           /\ currentDeviceId' = currentDeviceId ]_vars

\* C20 witness: a refresh has just been rejected for want of a list while
\* screen sources are listed and a device is selected.
C20_Witness ==
  /\ settled.op = "refreshMediaDevices"
  /\ settled.input.kind = "null"
  /\ settled.error = "No media devices found"
  /\ availableDevices["screenInput"] # <<>>
  /\ \E deviceType \in DeviceTypes : currentDeviceId[deviceType] = "d1"

====
